---- MODULE Spec2Model ----
(***************************************************************************)
(* Control core of the E-inkAware firmware (src/main.ino): the persistent  *)
(* note store, the BLE command interpreter, the encoder and button         *)
(* decoding of loop(), the BLE enable/timeout logic and the deep-sleep     *)
(* decision.                                                               *)
(***************************************************************************)
EXTENDS Integers, Sequences, FiniteSets, TLC

\* ------------------------------------------------------------ constants
\* src/main.ino:72
MAX_NOTES == 16
\* src/main.ino:84
NUM_PAGES == 4
\* src/main.ino:57 (minutes) and its use at line 620 (milliseconds)
INACTIVITY_MIN == 30
INACTIVITY_MS == INACTIVITY_MIN * 60 * 1000
\* src/main.ino:80
BLE_ENABLE_TIMEOUT_MS == 2 * 60 * 1000
\* src/main.ino:568
LONG_PRESS_MS == 800
\* src/main.ino:611
BAT_REFRESH_MS == 15000
\* src/main.ino:453
LIGHT_PERIOD_MS == 1000
\* src/main.ino:94-96
LUX_THRESHOLD_ON == 40
LIGHT_PWM_ON == 200
LIGHT_PWM_MIN == 0
\* pin levels (Arduino.h)
LOW == 0
HIGH == 1

\* ------------------------------------------------------------ bounds
\* remove() is called with indices from -MaxOOB to MAX_NOTES - 1 + MaxOOB
MaxOOB == 1
\* the log of appends made since the store was empty is kept for
\* MAX_NOTES + LogSlack appends
LogSlack == 1
\* in the store specification at most MaxMarked slots hold the second text at once
MaxMarked == 2
\* in the command specification the store grows to MaxCmdNotes notes
MaxCmdNotes == 2
\* the decoder's samples are recorded, and the encoder lines move, for MaxSamples samples
MaxSamples == 5
\* millis() advances in at most MaxTicks steps between two boots
MaxTicks == 2
\* in the BLE specification the encoder moves until the decoder has taken
\* MaxBleSamples samples
MaxBleSamples == 1
\* in the navigation specification the encoder moves until the decoder has
\* taken MaxNavSamples samples
MaxNavSamples == 4
\* in the encoder-flag specification the encoder moves until the decoder
\* has taken MaxEncSamples samples
MaxEncSamples == 4

\* ------------------------------------------------------------ text
\* A byte string is a sequence of one-byte tokens; NUL is the zero byte.
NUL == "NUL"
EmptyText == << >>

\* The literals of TextCallback::onWrite.
sNOTE == <<"N", "O", "T", "E", ":">>
sTIME == <<"T", "I", "M", "E", ":">>
sCLEAR_NOTES == <<"C", "L", "E", "A", "R", "_", "N", "O", "T", "E", "S">>
sBLE_OFF == <<"B", "L", "E", ":", "O", "F", "F">>

\* The values a peer writes in the store specification; MarkedText is the
\* note that tells a slot from its neighbours.
MarkedText == <<"b">>
StoreInputs == { sNOTE \o <<"a">>, MarkedText, sCLEAR_NOTES }

\* The values a peer writes in the command specification.
CmdInputs ==
  { EmptyText,
    sNOTE, sNOTE \o <<"a">>, sNOTE \o sNOTE,
    sTIME, sTIME \o <<"1", "2">>, sTIME \o <<"-", "1">>, sTIME \o <<"x">>,
    sCLEAR_NOTES, sBLE_OFF,
    <<"a">>, <<"n", "o", "t", "e", ":", "a">>, <<"N", "O", "T", "E">>,
    sCLEAR_NOTES \o <<" ">>, <<" ">> \o sBLE_OFF, <<"b", "l", "e", ":", "o", "f", "f">>,
    <<NUL>>, <<"a", NUL, "b">>, sNOTE \o <<"a", NUL, "b">>, sCLEAR_NOTES \o <<NUL, "x">> }

VARIABLES
  prefs,             \* NVS namespace "einkapp": [cnt |-> notes_cnt, note |-> (index -> text) of the keys note<index> present]
  sysEpoch,          \* system clock as last set by settimeofday (the 32 bits of epoch, read as signed)
  bleEnabled,        \* bool bleEnabled
  bleEnableTs,       \* unsigned long bleEnableTs
  currentPage,       \* int currentPage
  selectedNoteIndex, \* int selectedNoteIndex
  encoderPos,        \* volatile long encoderPos
  encoderMoved,      \* volatile bool encoderMoved
  lastEncoderPos,    \* long lastEncoderPos
  lastActivityMs,    \* unsigned long lastActivityMs
  lastA, lastB,      \* loop(): static int lastA, lastB
  btnDownTs,         \* loop(): static unsigned long btnDownTs
  btnDown,           \* loop(): static bool btnDown
  manualLightOn,     \* loop(): static bool manualLightOn
  lastBatMs,         \* loop(): static unsigned long lastBatMs
  lastRun,           \* autoAdjustLight(): static unsigned long lastRun
  ledc,              \* duty written to LEDC_CH
  lastDraw,          \* what the display shows: the last draw* call
  pinA, pinB,        \* levels of ENC_A_PIN, ENC_B_PIN
  pinBtn,            \* level of ENC_BTN_PIN
  now,               \* millis()
  ticks,             \* the steps millis() has advanced in since boot
  pc,                \* where loop() stands
  cbPc,              \* where TextCallback::onWrite stands
  lastOp,            \* history: kind of the last store operation or command
  lastArg,           \* history: the index of the last removeNote call, or the count the last command found
  appendLog,         \* history: the texts appended since the store was last empty, while only appends happened
  logOk,             \* history: appendLog is being kept
  samples,           \* history: the (A,B) pairs the decoder sampled
  posLog,            \* history: encoderPos after each sample
  btnEvent,          \* history: what the last button step classified ("none", "short", "long")
  heldMs,            \* history: the held duration of the last release
  drawnNote,         \* history: the index the last drawNote call was given (-1: none yet)
  smpA,              \* loop(): int a, between its read and the read of b (HIGH elsewhere)
  cbI                \* TextCallback::onWrite: int i of the CLEAR_NOTES loop (0 outside it)

storeVars == << prefs, lastOp, lastArg, appendLog, logOk >>
encVars == << pinA, pinB, encoderMoved, encoderPos, lastA, lastB, samples, posLog, smpA >>
navVars == << lastEncoderPos, currentPage, selectedNoteIndex, drawnNote >>
btnVars == << pinBtn, btnDown, btnDownTs, btnEvent, heldMs >>
lightVars == << manualLightOn, ledc, lastRun >>
timeVars == << now, ticks >>

vars == << storeVars, encVars, navVars, btnVars, lightVars, timeVars,
           sysEpoch, bleEnabled, bleEnableTs, lastActivityMs, lastBatMs,
           lastDraw, pc, cbPc, cbI >>

\* ------------------------------------------------------------ storage
NoKeys == [k \in {} |-> EmptyText]

\* loadNotesCount: prefs.getInt(NOTES_COUNT_KEY, 0)
loadNotesCount(p) == p.cnt

\* setNotesCount: prefs.putInt(NOTES_COUNT_KEY, n)
setNotesCount(p, n) == [p EXCEPT !.cnt = n]

\* readNote: prefs.getString("note<idx>", "")
readNote(p, idx) == IF idx \in DOMAIN p.note THEN p.note[idx] ELSE EmptyText

\* saveNote: prefs.putString("note<idx>", text)
saveNote(p, idx, text) ==
  [p EXCEPT !.note = [k \in (DOMAIN p.note) \cup {idx} |->
                        IF k = idx THEN text ELSE p.note[k]]]

\* prefs.remove("note<idx>")
removeKey(p, idx) ==
  [p EXCEPT !.note = [k \in (DOMAIN p.note) \ {idx} |-> p.note[k]]]

\* addNote with the text stored one slot too far
addNoteOffByOne(p, text) ==
  LET n == loadNotesCount(p) IN
  IF n >= MAX_NOTES
    THEN setNotesCount(saveNote(p, MAX_NOTES - 1, text), MAX_NOTES)
    ELSE setNotesCount(saveNote(p, n + 1, text), n + 1)

\* addNote where a full store overwrites the first slot, not the last
addNoteOverwriteFirst(p, text) ==
  LET n == loadNotesCount(p) IN
  IF n >= MAX_NOTES
    THEN setNotesCount(saveNote(p, 0, text), MAX_NOTES)
    ELSE setNotesCount(saveNote(p, n, text), n + 1)

addNote(p, text) ==
  LET n == loadNotesCount(p) IN
  IF n >= MAX_NOTES
    THEN setNotesCount(saveNote(p, MAX_NOTES - 1, text), MAX_NOTES)
    ELSE setNotesCount(saveNote(p, n, text), n + 1)

\* the loop of removeNote: for (i = idx; i < n-1; ++i) saveNote(i, readNote(i+1))
RECURSIVE shiftDown(_, _, _)
shiftDown(p, i, n) ==
  IF i < n - 1 THEN shiftDown(saveNote(p, i, readNote(p, i + 1)), i + 1, n)
               ELSE p

\* removeNote without its index guard on the high side
removeNoteNoGuard(p, idx) ==
  LET n == loadNotesCount(p) IN
  IF idx < 0 THEN p
  ELSE setNotesCount(removeKey(shiftDown(p, idx, n), n - 1), n - 1)

\* removeNote whose loop copies in the wrong direction (slot i+1 from slot i)
RECURSIVE shiftUp(_, _, _)
shiftUp(p, i, n) ==
  IF i < n - 1 THEN shiftUp(saveNote(p, i + 1, readNote(p, i)), i + 1, n)
               ELSE p

removeNoteShiftUp(p, idx) ==
  LET n == loadNotesCount(p) IN
  IF idx < 0 \/ idx >= n THEN p
  ELSE setNotesCount(removeKey(shiftUp(p, idx, n), n - 1), n - 1)

removeNote(p, idx) ==
  LET n == loadNotesCount(p) IN
  IF idx < 0 \/ idx >= n THEN p
  ELSE setNotesCount(removeKey(shiftDown(p, idx, n), n - 1), n - 1)

\* the loop of CLEAR_NOTES: for (i = 0; i < n; ++i) prefs.remove("note<i>")
RECURSIVE removeKeys(_, _, _)
removeKeys(p, i, n) ==
  IF i < n THEN removeKeys(removeKey(p, i), i + 1, n) ELSE p

\* CLEAR_NOTES that resets the count and leaves the keys in place
clearNotesKeepKeys(p) == setNotesCount(p, 0)

clearNotes(p) == setNotesCount(removeKeys(p, 0, loadNotesCount(p)), 0)

\* ------------------------------------------------------------ strings
\* String(s.c_str()): the bytes before the first zero byte
cstr(s) ==
  LET nul == {i \in 1..Len(s) : s[i] = NUL} IN
  IF nul = {} THEN s
  ELSE SubSeq(s, 1, (CHOOSE i \in nul : \A j \in nul : i <= j) - 1)

\* String::startsWith
startsWith(v, pre) == Len(v) >= Len(pre) /\ SubSeq(v, 1, Len(pre)) = pre

\* String::substring(from)
substring(v, from) == SubSeq(v, from + 1, Len(v))

Digits == <<"0", "1", "2", "3", "4", "5", "6", "7", "8", "9">>
isDigit(c) == \E d \in 1..10 : Digits[d] = c
digitVal(c) == (CHOOSE d \in 1..10 : Digits[d] = c) - 1

\* the leading digits of s, read as a number after acc
RECURSIVE digitsValue(_, _)
digitsValue(s, acc) ==
  IF Len(s) = 0 \/ ~isDigit(Head(s)) THEN acc
  ELSE digitsValue(Tail(s), acc * 10 + digitVal(Head(s)))

RECURSIVE skipSpace(_)
skipSpace(s) == IF Len(s) > 0 /\ Head(s) = " " THEN skipSpace(Tail(s)) ELSE s

\* String::toInt (atol): blanks, an optional sign, the leading digits;
\* 0 when there are none (the inputs here stay far inside a 32-bit long)
toInt(v) ==
  LET t == skipSpace(v)
      neg == Len(t) > 0 /\ Head(t) = "-"
      u == IF Len(t) > 0 /\ Head(t) \in {"-", "+"} THEN Tail(t) ELSE t
      m == digitsValue(u, 0)
  IN IF neg THEN 0 - m ELSE m

\* ------------------------------------------------------------ commands
\* the branch of onWrite with CLEAR_NOTES matched as a prefix
commandClearPrefix(v) ==
  IF startsWith(v, sNOTE) THEN "NOTE"
  ELSE IF startsWith(v, sTIME) THEN "TIME"
  ELSE IF startsWith(v, sCLEAR_NOTES) THEN "CLEAR_NOTES"
  ELSE IF v = sBLE_OFF THEN "BLE_OFF"
  ELSE "IMPLICIT"

\* the branch of onWrite the value v takes (first match wins)
command(v) ==
  IF startsWith(v, sNOTE) THEN "NOTE"
  ELSE IF startsWith(v, sTIME) THEN "TIME"
  ELSE IF v = sCLEAR_NOTES THEN "CLEAR_NOTES"
  ELSE IF v = sBLE_OFF THEN "BLE_OFF"
  ELSE "IMPLICIT"

\* the text addNote gets in the two appending branches
noteText(v) == IF command(v) = "NOTE" THEN substring(v, 5) ELSE v

\* history of the appends made since the store was empty
LogAppend(text) ==
  IF logOk /\ Len(appendLog) < MAX_NOTES + LogSlack
    THEN appendLog' = Append(appendLog, text) /\ logOk' = TRUE
    ELSE appendLog' = << >> /\ logOk' = FALSE

LogReset == appendLog' = << >> /\ logOk' = TRUE

\* TextCallback::onWrite, lines 345-382: the value s = characteristic->getValue()
onWriteBody(s) ==
  LET v == cstr(s)
      c == command(v)
  IN
  /\ prefs' = CASE c \in {"NOTE", "IMPLICIT"} -> addNote(prefs, noteText(v))
               [] c = "CLEAR_NOTES" -> clearNotes(prefs)
               [] OTHER -> prefs
  /\ sysEpoch' = IF c = "TIME" THEN toInt(substring(v, 5)) ELSE sysEpoch
  /\ bleEnabled' = IF c = "BLE_OFF" THEN FALSE ELSE bleEnabled
  /\ lastDraw' = CASE c \in {"NOTE", "IMPLICIT", "CLEAR_NOTES"} -> "NotesList"
                  [] c = "TIME" -> "Dashboard"
                  [] c = "BLE_OFF" /\ bleEnabled -> "Dashboard"
                  [] OTHER -> lastDraw
  /\ lastOp' = c
  /\ lastArg' = loadNotesCount(prefs)
  /\ CASE c \in {"NOTE", "IMPLICIT"} -> LogAppend(noteText(v))
       [] c = "CLEAR_NOTES" -> LogReset
       [] OTHER -> UNCHANGED << appendLog, logOk >>

\* what onWrite leaves alone
callbackFrame ==
  UNCHANGED << bleEnableTs, encVars, navVars, btnVars, lightVars, timeVars, lastBatMs, pc, cbI >>

\* TextCallback::onWrite as one step. The callback is installed by bleStart
\* and the stack is torn down by BLEDevice::deinit, so a write arrives only
\* while BLE is enabled.
OnWrite(s) ==
  /\ bleEnabled
  /\ cbPc = "idle"
  /\ pc # "asleep"
  /\ IF Len(s) = 0 THEN UNCHANGED vars
     ELSE /\ onWriteBody(s)
          /\ lastActivityMs' = now
          /\ UNCHANGED cbPc
          /\ callbackFrame

\* TextCallback::onWrite in the BLE task, up to the return of its draw call
\* (lines 345-382); loop() runs on while the display is painted
OnWriteBegin(s) ==
  /\ bleEnabled
  /\ cbPc = "idle"
  /\ pc # "asleep"
  /\ IF Len(s) = 0 THEN UNCHANGED vars
     ELSE /\ onWriteBody(s)
          /\ cbPc' = "stamp"
          /\ UNCHANGED lastActivityMs
          /\ callbackFrame

\* TextCallback::onWrite, line 383
OnWriteEnd ==
  /\ cbPc = "stamp"
  /\ pc # "asleep"
  /\ lastActivityMs' = now
  /\ cbPc' = "idle"
  /\ UNCHANGED << storeVars, encVars, navVars, btnVars, lightVars, timeVars,
                  sysEpoch, bleEnabled, bleEnableTs, lastBatMs, lastDraw, pc, cbI >>

\* TextCallback::onWrite by its single writes to the NVS, for the values
\* that add a note or clear the store: up to saveNote in addNote (lines
\* 345-355, 379-380, 321-327), or up to the CLEAR_NOTES loop (lines 364-365)
CbBegin(s) ==
  LET v == cstr(s)
      c == command(v)
      n == loadNotesCount(prefs)
  IN
  /\ bleEnabled
  /\ cbPc = "idle"
  /\ pc # "asleep"
  /\ Len(s) > 0
  /\ c \in {"NOTE", "IMPLICIT", "CLEAR_NOTES"}
  /\ lastOp' = c
  /\ lastArg' = n
  /\ IF c = "CLEAR_NOTES"
       THEN /\ cbPc' = "clear"
            /\ cbI' = 0
            /\ LogReset
            /\ UNCHANGED prefs
       ELSE /\ cbPc' = "noteCount"
            /\ prefs' = saveNote(prefs, IF n >= MAX_NOTES THEN MAX_NOTES - 1 ELSE n, noteText(v))
            /\ LogAppend(noteText(v))
            /\ UNCHANGED cbI
  /\ UNCHANGED << bleEnableTs, encVars, navVars, btnVars, lightVars, timeVars, lastBatMs, pc,
                  sysEpoch, bleEnabled, lastDraw, lastActivityMs >>

\* addNote, setNotesCount (lines 325, 328), and drawNotesList (lines 356, 381)
CbNoteCount ==
  LET n == loadNotesCount(prefs) IN
  /\ cbPc = "noteCount"
  /\ pc # "asleep"
  /\ prefs' = setNotesCount(prefs, IF n >= MAX_NOTES THEN MAX_NOTES ELSE n + 1)
  /\ lastDraw' = "NotesList"
  /\ cbPc' = "stamp"
  /\ UNCHANGED << lastOp, lastArg, appendLog, logOk, bleEnableTs, encVars, navVars, btnVars,
                  lightVars, timeVars, lastBatMs, pc, sysEpoch, bleEnabled, lastActivityMs, cbI >>

\* one pass of the CLEAR_NOTES loop (lines 366-368)
CbClearRemove ==
  /\ cbPc = "clear"
  /\ pc # "asleep"
  /\ cbI < loadNotesCount(prefs)
  /\ prefs' = removeKey(prefs, cbI)
  /\ cbI' = cbI + 1
  /\ UNCHANGED << lastOp, lastArg, appendLog, logOk, bleEnableTs, encVars, navVars, btnVars,
                  lightVars, timeVars, lastBatMs, pc, sysEpoch, bleEnabled, lastActivityMs,
                  lastDraw, cbPc >>

\* the end of the CLEAR_NOTES loop, setNotesCount(0) and drawNotesList
\* (lines 366, 369-370)
CbClearCount ==
  /\ cbPc = "clear"
  /\ pc # "asleep"
  /\ cbI >= loadNotesCount(prefs)
  /\ prefs' = setNotesCount(prefs, 0)
  /\ cbI' = 0
  /\ lastDraw' = "NotesList"
  /\ cbPc' = "stamp"
  /\ UNCHANGED << lastOp, lastArg, appendLog, logOk, bleEnableTs, encVars, navVars, btnVars,
                  lightVars, timeVars, lastBatMs, pc, sysEpoch, bleEnabled, lastActivityMs >>

\* bleStart without the early return of line 390
bleStartUnguarded ==
  /\ bleEnabled' = TRUE
  /\ bleEnableTs' = now
  /\ lastDraw' = "Dashboard"

\* bleStart: the updates of its body
bleStart ==
  IF bleEnabled THEN UNCHANGED << bleEnabled, bleEnableTs, lastDraw >>
  ELSE /\ bleEnabled' = TRUE
       /\ bleEnableTs' = now
       /\ lastDraw' = "Dashboard"

\* bleStop: the updates of its body
bleStop ==
  IF ~bleEnabled THEN UNCHANGED << bleEnabled, bleEnableTs, lastDraw >>
  ELSE /\ bleEnabled' = FALSE
       /\ lastDraw' = "Dashboard"
       /\ UNCHANGED bleEnableTs

\* a call of bleStart() that enables BLE
BleStart ==
  /\ ~bleEnabled
  /\ pc # "asleep"
  /\ bleStart
  /\ UNCHANGED << storeVars, encVars, navVars, btnVars, lightVars, timeVars,
                  sysEpoch, lastActivityMs, lastBatMs, pc, cbPc, cbI >>

\* a call of bleStart() while BLE is enabled
BleStartAgain ==
  /\ bleEnabled
  /\ pc # "asleep"
  /\ bleStart
  /\ UNCHANGED << storeVars, encVars, navVars, btnVars, lightVars, timeVars,
                  sysEpoch, lastActivityMs, lastBatMs, pc, cbPc, cbI >>

\* a call of bleStop() while BLE is disabled
BleStopAgain ==
  /\ ~bleEnabled
  /\ pc # "asleep"
  /\ bleStop
  /\ UNCHANGED << storeVars, encVars, navVars, btnVars, lightVars, timeVars,
                  sysEpoch, lastActivityMs, lastBatMs, pc, cbPc, cbI >>

\* a call of removeNote(idx)
RemoveNoteCall(idx) ==
  LET n == loadNotesCount(prefs) IN
  /\ cbPc = "idle"
  /\ prefs' = removeNote(prefs, idx)
  /\ lastOp' = IF idx < 0 \/ idx >= n THEN "removeNoop" ELSE "remove"
  /\ lastArg' = idx
  /\ IF idx < 0 \/ idx >= n THEN UNCHANGED << appendLog, logOk >>
     ELSE IF n = 1 THEN LogReset
     ELSE appendLog' = << >> /\ logOk' = FALSE
  /\ UNCHANGED << encVars, navVars, btnVars, lightVars, timeVars, sysEpoch,
                  bleEnabled, bleEnableTs, lastActivityMs, lastBatMs, lastDraw, pc, cbPc, cbI >>

\* ------------------------------------------------------------ loop()
\* the draw call of the page switch at lines 546-554
pageDraw(page) ==
  CASE page = 0 -> "Dashboard"
    [] page = 1 -> "NotesList"
    [] page = 2 -> "Note"
    [] OTHER -> "System"

\* lines 530-531 with the two directions exchanged by the phase of the lines
quadStepByPhase(a, b, la, lb) == IF a = lb THEN 0 - 1 ELSE 1

\* lines 530-531: if (a == b) encoderPos++; else encoderPos--;
quadStep(a, b, la, lb) == IF a = b THEN 1 ELSE 0 - 1

\* lines 522-535: the encoder block
LoopEncoder ==
  /\ pc = "encoder"
  /\ pc' = "nav"
  /\ IF encoderMoved
       THEN /\ encoderMoved' = FALSE
            /\ IF pinA # lastA \/ pinB # lastB
                 THEN /\ encoderPos' = encoderPos + quadStep(pinA, pinB, lastA, lastB)
                      /\ lastA' = pinA
                      /\ lastB' = pinB
                      /\ lastActivityMs' = now
                 ELSE UNCHANGED << encoderPos, lastA, lastB, lastActivityMs >>
            /\ IF Len(samples) < MaxSamples
                 THEN /\ samples' = Append(samples, << pinA, pinB >>)
                      /\ posLog' = Append(posLog, encoderPos')
                 ELSE UNCHANGED << samples, posLog >>
       ELSE UNCHANGED << encoderMoved, encoderPos, lastA, lastB, lastActivityMs, samples, posLog >>
  /\ UNCHANGED << storeVars, pinA, pinB, smpA, navVars, btnVars, lightVars, timeVars,
                  sysEpoch, bleEnabled, bleEnableTs, lastBatMs, lastDraw, cbPc, cbI >>

\* lines 522-523: the test and the clearing of the flag
EncClear ==
  /\ pc = "encoder"
  /\ IF encoderMoved
       THEN encoderMoved' = FALSE /\ pc' = "encReadA"
       ELSE encoderMoved' = encoderMoved /\ pc' = "nav"
  /\ UNCHANGED << storeVars, pinA, pinB, encoderPos, lastA, lastB, samples, posLog, smpA,
                  navVars, btnVars, lightVars, timeVars, sysEpoch, bleEnabled, bleEnableTs,
                  lastActivityMs, lastBatMs, lastDraw, cbPc, cbI >>

\* line 527: int a = digitalRead(ENC_A_PIN)
EncReadA ==
  /\ pc = "encReadA"
  /\ pc' = "encReadB"
  /\ smpA' = pinA
  /\ UNCHANGED << storeVars, pinA, pinB, encoderMoved, encoderPos, lastA, lastB, samples,
                  posLog, navVars, btnVars, lightVars, timeVars, sysEpoch, bleEnabled,
                  bleEnableTs, lastActivityMs, lastBatMs, lastDraw, cbPc, cbI >>

\* lines 528-534 with the flag cleared after the sampling
EncReadBThenClear ==
  /\ pc = "encReadB"
  /\ pc' = "nav"
  /\ smpA' = HIGH
  /\ encoderMoved' = FALSE
  /\ IF smpA # lastA \/ pinB # lastB
       THEN /\ encoderPos' = encoderPos + quadStep(smpA, pinB, lastA, lastB)
            /\ lastA' = smpA
            /\ lastB' = pinB
            /\ lastActivityMs' = now
       ELSE UNCHANGED << encoderPos, lastA, lastB, lastActivityMs >>
  /\ IF Len(samples) < MaxSamples
       THEN /\ samples' = Append(samples, << smpA, pinB >>)
            /\ posLog' = Append(posLog, encoderPos')
       ELSE UNCHANGED << samples, posLog >>
  /\ UNCHANGED << storeVars, pinA, pinB, navVars, btnVars, lightVars,
                  timeVars, sysEpoch, bleEnabled, bleEnableTs, lastBatMs, lastDraw, cbPc, cbI >>

\* lines 528-534: int b = digitalRead(ENC_B_PIN) and the decode step; the
\* local a is dead past the block
EncReadB ==
  /\ pc = "encReadB"
  /\ pc' = "nav"
  /\ smpA' = HIGH
  /\ IF smpA # lastA \/ pinB # lastB
       THEN /\ encoderPos' = encoderPos + quadStep(smpA, pinB, lastA, lastB)
            /\ lastA' = smpA
            /\ lastB' = pinB
            /\ lastActivityMs' = now
       ELSE UNCHANGED << encoderPos, lastA, lastB, lastActivityMs >>
  /\ IF Len(samples) < MaxSamples
       THEN /\ samples' = Append(samples, << smpA, pinB >>)
            /\ posLog' = Append(posLog, encoderPos')
       ELSE UNCHANGED << samples, posLog >>
  /\ UNCHANGED << storeVars, pinA, pinB, encoderMoved, navVars, btnVars, lightVars,
                  timeVars, sysEpoch, bleEnabled, bleEnableTs, lastBatMs, lastDraw, cbPc, cbI >>

\* lines 537-555 with the selection following the encoder
LoopNavSelecting ==
  /\ pc = "nav"
  /\ pc' = "button"
  /\ IF encoderPos # lastEncoderPos
       THEN /\ currentPage' = IF encoderPos > lastEncoderPos
                                 THEN (currentPage + 1) % NUM_PAGES
                                 ELSE (currentPage - 1 + NUM_PAGES) % NUM_PAGES
            /\ lastEncoderPos' = encoderPos
            /\ lastDraw' = pageDraw(currentPage')
            /\ selectedNoteIndex' = (selectedNoteIndex + 1) % MAX_NOTES
            /\ drawnNote' = IF currentPage' = 2 THEN selectedNoteIndex' ELSE drawnNote
       ELSE UNCHANGED << currentPage, lastEncoderPos, lastDraw, drawnNote, selectedNoteIndex >>
  /\ UNCHANGED << storeVars, encVars, btnVars, lightVars, timeVars,
                  sysEpoch, bleEnabled, bleEnableTs, lastActivityMs, lastBatMs, cbPc, cbI >>

\* lines 537-555 with a backward step that does not wrap
LoopNavNoWrap ==
  /\ pc = "nav"
  /\ pc' = "button"
  /\ IF encoderPos # lastEncoderPos
       THEN /\ currentPage' = IF encoderPos > lastEncoderPos
                                 THEN (currentPage + 1) % NUM_PAGES
                                 ELSE currentPage - 1
            /\ lastEncoderPos' = encoderPos
            /\ lastDraw' = pageDraw(currentPage')
            /\ drawnNote' = IF currentPage' = 2 THEN selectedNoteIndex ELSE drawnNote
       ELSE UNCHANGED << currentPage, lastEncoderPos, lastDraw, drawnNote >>
  /\ UNCHANGED << storeVars, encVars, selectedNoteIndex, btnVars, lightVars, timeVars,
                  sysEpoch, bleEnabled, bleEnableTs, lastActivityMs, lastBatMs, cbPc, cbI >>

\* lines 537-555: encoder position change => page change
LoopNav ==
  /\ pc = "nav"
  /\ pc' = "button"
  /\ IF encoderPos # lastEncoderPos
       THEN /\ currentPage' = IF encoderPos > lastEncoderPos
                                 THEN (currentPage + 1) % NUM_PAGES
                                 ELSE (currentPage - 1 + NUM_PAGES) % NUM_PAGES
            /\ lastEncoderPos' = encoderPos
            /\ lastDraw' = pageDraw(currentPage')
            /\ drawnNote' = IF currentPage' = 2 THEN selectedNoteIndex ELSE drawnNote
       ELSE UNCHANGED << currentPage, lastEncoderPos, lastDraw, drawnNote >>
  /\ UNCHANGED << storeVars, encVars, selectedNoteIndex, btnVars, lightVars, timeVars,
                  sysEpoch, bleEnabled, bleEnableTs, lastActivityMs, lastBatMs, cbPc, cbI >>

\* line 568 with the boundary on the short side
isShortPressInclusive(held) == held <= LONG_PRESS_MS

\* line 568: held < 800
isShortPress(held) == held < LONG_PRESS_MS

\* lines 570-584 with the note page left for the dashboard
shortPressToDashboard ==
  IF currentPage = 1 THEN
    /\ lastDraw' = "Note"
    /\ drawnNote' = selectedNoteIndex
    /\ currentPage' = 2
    /\ UNCHANGED << manualLightOn, ledc >>
  ELSE IF currentPage = 2 THEN
    /\ currentPage' = 0
    /\ lastDraw' = "Dashboard"
    /\ UNCHANGED << manualLightOn, ledc, drawnNote >>
  ELSE
    /\ manualLightOn' = ~manualLightOn
    /\ ledc' = IF manualLightOn' THEN LIGHT_PWM_ON ELSE 0
    /\ UNCHANGED << currentPage, lastDraw, drawnNote >>

\* lines 570-584: short press: select / view / toggle light
shortPress ==
  IF currentPage = 1 THEN
    /\ lastDraw' = "Note"
    /\ drawnNote' = selectedNoteIndex
    /\ currentPage' = 2
    /\ UNCHANGED << manualLightOn, ledc >>
  ELSE IF currentPage = 2 THEN
    /\ currentPage' = 1
    /\ lastDraw' = "NotesList"
    /\ UNCHANGED << manualLightOn, ledc, drawnNote >>
  ELSE
    /\ manualLightOn' = ~manualLightOn
    /\ ledc' = IF manualLightOn' THEN LIGHT_PWM_ON ELSE 0
    /\ UNCHANGED << currentPage, lastDraw, drawnNote >>

\* lines 557-597: button push -> short press / long press
LoopButton ==
  /\ pc = "button"
  /\ pc' = "bleTimeout"
  /\ IF pinBtn = LOW /\ ~btnDown THEN
       /\ btnDown' = TRUE
       /\ btnDownTs' = now
       /\ btnEvent' = "none"
       /\ UNCHANGED << heldMs, lastActivityMs, currentPage, lastDraw, drawnNote,
                       manualLightOn, ledc, bleEnabled, bleEnableTs >>
     ELSE IF pinBtn = HIGH /\ btnDown THEN
       LET held == now - btnDownTs IN
       /\ btnDown' = FALSE
       /\ lastActivityMs' = now
       /\ heldMs' = held
       /\ UNCHANGED btnDownTs
       /\ IF isShortPress(held) THEN
            /\ btnEvent' = "short"
            /\ UNCHANGED << bleEnabled, bleEnableTs >>
            /\ shortPress
          ELSE
            /\ btnEvent' = "long"
            /\ IF ~bleEnabled THEN bleStart ELSE bleStop
            /\ UNCHANGED << currentPage, drawnNote, manualLightOn, ledc >>
     ELSE
       /\ btnEvent' = "none"
       /\ UNCHANGED << btnDown, btnDownTs, heldMs, lastActivityMs, currentPage, lastDraw,
                       drawnNote, manualLightOn, ledc, bleEnabled, bleEnableTs >>
  /\ UNCHANGED << storeVars, encVars, lastEncoderPos, selectedNoteIndex, pinBtn, lastRun,
                  timeVars, sysEpoch, lastBatMs, cbPc, cbI >>

\* lines 599-604 with the timeout counted from the last activity
LoopBleTimeoutFromActivity ==
  /\ pc = "bleTimeout"
  /\ pc' = "light"
  /\ IF bleEnabled /\ now - lastActivityMs > BLE_ENABLE_TIMEOUT_MS
       THEN bleStop
       ELSE UNCHANGED << bleEnabled, bleEnableTs, lastDraw >>
  /\ UNCHANGED << storeVars, encVars, navVars, btnVars, lightVars, timeVars,
                  sysEpoch, lastActivityMs, lastBatMs, cbPc, cbI >>

\* lines 599-604: BLE auto-timeout if enabled
LoopBleTimeout ==
  /\ pc = "bleTimeout"
  /\ pc' = "light"
  /\ IF bleEnabled /\ now - bleEnableTs > BLE_ENABLE_TIMEOUT_MS
       THEN bleStop
       ELSE UNCHANGED << bleEnabled, bleEnableTs, lastDraw >>
  /\ UNCHANGED << storeVars, encVars, navVars, btnVars, lightVars, timeVars,
                  sysEpoch, lastActivityMs, lastBatMs, cbPc, cbI >>

\* the readings of the BH1750 on either side of the threshold
LuxInputs == { LUX_THRESHOLD_ON - 1, LUX_THRESHOLD_ON }

\* line 607, autoAdjustLight (lines 451-466) with the reading lux
LoopLight(lux) ==
  /\ pc = "light"
  /\ pc' = "periodic"
  /\ IF now - lastRun < LIGHT_PERIOD_MS
       THEN UNCHANGED << lastRun, ledc >>
       ELSE /\ lastRun' = now
            /\ ledc' = IF lux < LUX_THRESHOLD_ON THEN LIGHT_PWM_ON ELSE LIGHT_PWM_MIN
  /\ UNCHANGED << storeVars, encVars, navVars, btnVars, manualLightOn, timeVars,
                  sysEpoch, bleEnabled, bleEnableTs, lastActivityMs, lastBatMs, lastDraw, cbPc, cbI >>

\* lines 609-615: periodic redraw of the dashboard or system page
LoopPeriodic ==
  /\ pc = "periodic"
  /\ pc' = "sleep"
  /\ IF now - lastBatMs > BAT_REFRESH_MS
       THEN /\ lastBatMs' = now
            /\ lastDraw' = IF currentPage = 0 THEN "Dashboard"
                            ELSE IF currentPage = 3 THEN "System" ELSE lastDraw
       ELSE UNCHANGED << lastBatMs, lastDraw >>
  /\ UNCHANGED << storeVars, encVars, navVars, btnVars, lightVars, timeVars,
                  sysEpoch, bleEnabled, bleEnableTs, lastActivityMs, cbPc, cbI >>

\* line 620 with the threshold itself taken as exceeded
idleReached(idleMs) == idleMs >= INACTIVITY_MS

\* line 620: idleMs > INACTIVITY_MIN * 60UL * 1000UL
idleExceeded(idleMs) == idleMs > INACTIVITY_MS

\* the sleep decision without the test of line 618
LoopSleepDecideIgnoringBle ==
  /\ pc = "sleep"
  /\ pc' = IF idleExceeded(now - lastActivityMs) THEN "gosleep" ELSE "encoder"
  /\ UNCHANGED << storeVars, encVars, navVars, btnVars, lightVars, timeVars,
                  sysEpoch, bleEnabled, bleEnableTs, lastActivityMs, lastBatMs, lastDraw, cbPc, cbI >>

\* lines 617-621 and 628: the sleep decision, then delay(20)
LoopSleepDecide ==
  /\ pc = "sleep"
  /\ pc' = IF ~bleEnabled /\ idleExceeded(now - lastActivityMs) THEN "gosleep" ELSE "encoder"
  /\ UNCHANGED << storeVars, encVars, navVars, btnVars, lightVars, timeVars,
                  sysEpoch, bleEnabled, bleEnableTs, lastActivityMs, lastBatMs, lastDraw, cbPc, cbI >>

\* the final draw taken as a return to the dashboard page
GoToDeepSleepToDashboard ==
  /\ pc = "gosleep"
  /\ pc' = "asleep"
  /\ lastDraw' = "Dashboard"
  /\ currentPage' = 0
  /\ ledc' = 0
  /\ UNCHANGED << storeVars, encVars, lastEncoderPos, selectedNoteIndex, drawnNote, btnVars,
                  manualLightOn, lastRun, timeVars,
                  sysEpoch, bleEnabled, bleEnableTs, lastActivityMs, lastBatMs, cbPc, cbI >>

\* lines 622-624 and goToDeepSleep (lines 469-481): the final draw, the
\* light off, esp_deep_sleep_start
GoToDeepSleep ==
  /\ pc = "gosleep"
  /\ pc' = "asleep"
  /\ lastDraw' = "Dashboard"
  /\ ledc' = 0
  /\ UNCHANGED << storeVars, encVars, navVars, btnVars, manualLightOn, lastRun, timeVars,
                  sysEpoch, bleEnabled, bleEnableTs, lastActivityMs, lastBatMs, cbPc, cbI >>

\* the wake-up as a resume that keeps the page
WakeResumed ==
  /\ pc = "asleep"
  /\ pinBtn = LOW
  /\ pc' = "encoder"
  /\ cbPc' = "idle"
  /\ cbI' = 0
  /\ bleEnabled' = FALSE
  /\ bleEnableTs' = 0
  /\ currentPage' = currentPage
  /\ selectedNoteIndex' = 0
  /\ encoderPos' = 0
  /\ encoderMoved' = FALSE
  /\ lastEncoderPos' = 0
  /\ lastA' = HIGH
  /\ lastB' = HIGH
  /\ btnDown' = FALSE
  /\ btnDownTs' = 0
  /\ manualLightOn' = FALSE
  /\ lastBatMs' = 0
  /\ lastRun' = 0
  /\ ledc' = 0
  /\ lastDraw' = "Dashboard"
  /\ now' = 0
  /\ ticks' = 0
  /\ lastActivityMs' = 0
  /\ btnEvent' = "none"
  /\ UNCHANGED << storeVars, sysEpoch, pinA, pinB, pinBtn, samples, posLog, heldMs, drawnNote, smpA >>

\* the ext0 wake-up (button LOW, line 474): reset, the initialisers of the
\* globals and statics, setup() (lines 484-518); the NVS and the system
\* clock keep their content
Wake ==
  /\ pc = "asleep"
  /\ pinBtn = LOW
  /\ pc' = "encoder"
  /\ cbPc' = "idle"
  /\ cbI' = 0
  /\ bleEnabled' = FALSE
  /\ bleEnableTs' = 0
  /\ currentPage' = 0
  /\ selectedNoteIndex' = 0
  /\ encoderPos' = 0
  /\ encoderMoved' = FALSE
  /\ lastEncoderPos' = 0
  /\ lastA' = HIGH
  /\ lastB' = HIGH
  /\ btnDown' = FALSE
  /\ btnDownTs' = 0
  /\ manualLightOn' = FALSE
  /\ lastBatMs' = 0
  /\ lastRun' = 0
  /\ ledc' = 0
  /\ lastDraw' = "Dashboard"
  /\ now' = 0
  /\ ticks' = 0
  /\ lastActivityMs' = 0
  /\ btnEvent' = "none"
  /\ UNCHANGED << storeVars, sysEpoch, pinA, pinB, pinBtn, samples, posLog, heldMs, drawnNote, smpA >>

\* ------------------------------------------------------------ environment
Levels == { LOW, HIGH }

\* the encoder lines move to (a, b); the CHANGE interrupt runs encoderISR
\* (lines 419-422) unless the chip sleeps
EncoderEdge(a, b) ==
  /\ << a, b >> # << pinA, pinB >>
  /\ pinA' = a
  /\ pinB' = b
  /\ encoderMoved' = IF pc = "asleep" THEN encoderMoved ELSE TRUE
  /\ UNCHANGED << storeVars, encoderPos, lastA, lastB, samples, posLog, smpA, navVars, btnVars,
                  lightVars, timeVars, sysEpoch, bleEnabled, bleEnableTs, lastActivityMs,
                  lastBatMs, lastDraw, pc, cbPc, cbI >>

\* the button is pressed (LOW) or released (HIGH)
ButtonEdge(level) ==
  /\ level # pinBtn
  /\ pinBtn' = level
  /\ UNCHANGED << storeVars, encVars, navVars, btnDown, btnDownTs, btnEvent, heldMs,
                  lightVars, timeVars, sysEpoch, bleEnabled, bleEnableTs, lastActivityMs,
                  lastBatMs, lastDraw, pc, cbPc, cbI >>

\* millis() advances by d
Tick(d) ==
  /\ pc # "asleep"
  /\ ticks < MaxTicks
  /\ now' = now + d
  /\ ticks' = ticks + 1
  /\ UNCHANGED << storeVars, encVars, navVars, btnVars, lightVars,
                  sysEpoch, bleEnabled, bleEnableTs, lastActivityMs, lastBatMs,
                  lastDraw, pc, cbPc, cbI >>

\* ------------------------------------------------------------ specifications
\* the state setup() leaves, on a device whose store is empty
Init ==
  /\ prefs = [cnt |-> 0, note |-> NoKeys]
  /\ sysEpoch = 0
  /\ bleEnabled = FALSE
  /\ bleEnableTs = 0
  /\ currentPage = 0
  /\ selectedNoteIndex = 0
  /\ encoderPos = 0
  /\ encoderMoved = FALSE
  /\ lastEncoderPos = 0
  /\ lastActivityMs = 0
  /\ lastA = HIGH
  /\ lastB = HIGH
  /\ btnDownTs = 0
  /\ btnDown = FALSE
  /\ manualLightOn = FALSE
  /\ lastBatMs = 0
  /\ lastRun = 0
  /\ ledc = 0
  /\ lastDraw = "Dashboard"
  /\ pinA = HIGH
  /\ pinB = HIGH
  /\ pinBtn = HIGH
  /\ now = 0
  /\ ticks = 0
  /\ pc = "encoder"
  /\ cbPc = "idle"
  /\ lastOp = "none"
  /\ lastArg = 0
  /\ appendLog = << >>
  /\ logOk = TRUE
  /\ samples = << >>
  /\ posLog = << >>
  /\ btnEvent = "none"
  /\ heldMs = 0
  /\ drawnNote = 0 - 1
  /\ smpA = HIGH
  /\ cbI = 0

RemoveIdx == (0 - MaxOOB) .. (MAX_NOTES - 1 + MaxOOB)

\* The note store under appends, removals and clears.
Marked(p) == Cardinality({i \in DOMAIN p.note : p.note[i] = MarkedText})

NextStore ==
  \/ BleStart
  \/ \E s \in StoreInputs :
        /\ s = MarkedText => Marked(prefs) < MaxMarked
        /\ OnWrite(s)
  \/ \E idx \in RemoveIdx : RemoveNoteCall(idx)

SpecStore == Init /\ [][NextStore]_vars

\* The command interpreter under every value of CmdInputs.
NextCmd ==
  \/ BleStart
  \/ \E s \in CmdInputs :
        /\ command(cstr(s)) \in {"NOTE", "IMPLICIT"} => loadNotesCount(prefs) < MaxCmdNotes
        /\ OnWrite(s)

SpecCmd == Init /\ [][NextCmd]_vars

\* the steps of loop() that run while the chip is awake
Loop ==
  \/ LoopEncoder
  \/ LoopNav
  \/ LoopButton
  \/ LoopBleTimeout
  \/ \E lux \in LuxInputs : LoopLight(lux)
  \/ LoopPeriodic
  \/ LoopSleepDecide

\* The decoder under every movement of the encoder lines.
NextQuad ==
  \/ Loop
  \/ \E a \in Levels, b \in Levels : Len(samples) < MaxSamples /\ EncoderEdge(a, b)

SpecQuad == Init /\ [][NextQuad]_vars

\* The button under presses held just below, at and just above the limit.
ButtonDeltas == { LONG_PRESS_MS - 1, LONG_PRESS_MS, LONG_PRESS_MS + 1 }

NextButton ==
  \/ Loop
  \/ \E level \in Levels : ButtonEdge(level)
  \/ \E d \in ButtonDeltas : Tick(d)

SpecButton == Init /\ [][NextButton]_vars

\* The device: loop(), the button, the command channel, sleep and wake-up.
DeviceDeltas == { LONG_PRESS_MS, INACTIVITY_MS - 1, INACTIVITY_MS, INACTIVITY_MS + 1 }
DeviceInputs == { sBLE_OFF, sTIME }

Next ==
  \/ Loop
  \/ GoToDeepSleep
  \/ Wake
  \/ \E level \in Levels : ButtonEdge(level)
  \/ \E s \in DeviceInputs : OnWriteBegin(s)
  \/ OnWriteEnd
  \/ \E d \in DeviceDeltas : Tick(d)

Spec == Init /\ [][Next]_vars

\* The BLE channel: loop() with the button, the A line of the encoder, the
\* command channel and the BLE timeout. millis() advances between two
\* iterations and stays far below the sleep threshold.
BleDeltas == { LONG_PRESS_MS, BLE_ENABLE_TIMEOUT_MS + 1 }
BleInputs == { sTIME, sBLE_OFF }

NextBle ==
  \/ Loop
  \/ \E a \in Levels : Len(samples) < MaxBleSamples /\ EncoderEdge(a, pinB)
  \/ \E level \in Levels : ButtonEdge(level)
  \/ \E s \in BleInputs : OnWrite(s)
  \/ BleStartAgain
  \/ BleStopAgain
  \/ \E d \in BleDeltas : pc = "encoder" /\ Tick(d)

SpecBle == Init /\ [][NextBle]_vars

\* Navigation: loop() with the encoder and the button; millis() stands
\* still, so every press is a short one.
NextNav ==
  \/ Loop
  \/ \E a \in Levels, b \in Levels : Len(samples) < MaxNavSamples /\ EncoderEdge(a, b)
  \/ \E level \in Levels : ButtonEdge(level)

SpecNav == Init /\ [][NextNav]_vars

\* Sleep and wake-up: the device, whose empty store gets a note; the A line
\* of the encoder moves before the first decode and while the chip sleeps.
SleepDeltas == { LONG_PRESS_MS, INACTIVITY_MS + 1 }
SleepInputs == { sNOTE \o <<"a">> }

NextSleep ==
  \/ Loop
  \/ GoToDeepSleep
  \/ Wake
  \/ \E a \in Levels : (Len(samples) < MaxBleSamples \/ pc = "asleep") /\ EncoderEdge(a, pinB)
  \/ \E level \in Levels : ButtonEdge(level)
  \/ \E s \in SleepInputs : loadNotesCount(prefs) = 0 /\ OnWriteBegin(s)
  \/ OnWriteEnd
  \/ \E d \in SleepDeltas : pc = "encoder" /\ Tick(d)

SpecSleep == Init /\ [][NextSleep]_vars

\* The encoder flag: loop() with the encoder block in its single reads and
\* writes, under every movement of the encoder lines until the decoder has
\* taken MaxEncSamples samples. loop() is called again and again.
LoopByReads ==
  \/ EncClear
  \/ EncReadA
  \/ EncReadB
  \/ LoopNav
  \/ LoopButton
  \/ LoopBleTimeout
  \/ \E lux \in LuxInputs : LoopLight(lux)
  \/ LoopPeriodic
  \/ LoopSleepDecide

NextEnc ==
  \/ LoopByReads
  \/ \E a \in Levels, b \in Levels : Len(samples) < MaxEncSamples /\ EncoderEdge(a, b)

SpecEnc == Init /\ [][NextEnc]_vars /\ WF_vars(LoopByReads)

\* The store between two tasks: the callback by its single writes, while
\* loop() draws the pages the encoder and the button lead to.
RaceInputs == { sNOTE \o <<"a">>, sCLEAR_NOTES }

NextRace ==
  \/ Loop
  \/ \E a \in Levels, b \in Levels : Len(samples) < MaxBleSamples /\ EncoderEdge(a, b)
  \/ \E level \in Levels : ButtonEdge(level)
  \/ \E s \in RaceInputs : loadNotesCount(prefs) < MaxCmdNotes /\ CbBegin(s)
  \/ CbNoteCount
  \/ CbClearRemove
  \/ CbClearCount
  \/ OnWriteEnd
  \/ pc = "encoder" /\ Tick(LONG_PRESS_MS)

SpecRace == Init /\ [][NextRace]_vars

\* The selection: loop() with both lines of the encoder and the button,
\* a note written to the empty store and the store cleared again, and
\* millis() advancing between two iterations by a step that is a long
\* press and a BLE timeout at once.
SelInputs == { sNOTE \o <<"a">>, sCLEAR_NOTES }

NextSel ==
  \/ Loop
  \/ \E a \in Levels, b \in Levels : Len(samples) < MaxBleSamples /\ EncoderEdge(a, b)
  \/ \E level \in Levels : ButtonEdge(level)
  \/ \E s \in SelInputs : (loadNotesCount(prefs) = 0 <=> s # sCLEAR_NOTES) /\ OnWrite(s)
  \/ pc = "encoder" /\ Tick(BLE_ENABLE_TIMEOUT_MS + 1)

SpecSel == Init /\ [][NextSel]_vars

\* The page: one execution of the firmware from boot to deep sleep, with
\* both lines of the encoder, the button, a note written to the empty
\* store, BLE:OFF, and millis() advancing between two iterations by a step
\* longer than every period and timeout of loop().
PageInputs == { sNOTE \o <<"a">>, sBLE_OFF }

NextPage ==
  \/ Loop
  \/ GoToDeepSleep
  \/ \E a \in Levels, b \in Levels : Len(samples) < MaxBleSamples /\ EncoderEdge(a, b)
  \/ \E level \in Levels : ButtonEdge(level)
  \/ \E s \in PageInputs : (loadNotesCount(prefs) = 0 \/ s = sBLE_OFF) /\ OnWrite(s)
  \/ pc = "encoder" /\ Tick(INACTIVITY_MS + 1)

SpecPage == Init /\ [][NextPage]_vars

\* ------------------------------------------------------------ note store claims
Min(a, b) == IF a < b THEN a ELSE b

Slots(p) == 0 .. (loadNotesCount(p) - 1)

\* C1: in every state reached by appends, removals and clears the count is
\* in 0..MAX_NOTES and every slot below the count holds a text: the key
\* note<i> is present, and so reads the text last saved there.
C1_CountAndSlots ==
  /\ loadNotesCount(prefs) \in 0..MAX_NOTES
  /\ \A i \in Slots(prefs) : i \in DOMAIN prefs.note
  /\ logOk => \A i \in Slots(prefs) \ {MAX_NOTES - 1} : readNote(prefs, i) = appendLog[i + 1]

\* a full store that has just lost a note to removeNote
C1_Witness ==
  /\ lastOp = "remove"
  /\ loadNotesCount(prefs) = MAX_NOTES - 1
  /\ Marked(prefs) > 0

\* the store after the appends of appendLog, made from the empty store
LogLaw ==
  logOk =>
    LET k == Len(appendLog) IN
    /\ loadNotesCount(prefs) = Min(k, MAX_NOTES)
    /\ \A i \in 0 .. (Min(k, MAX_NOTES - 1) - 1) : readNote(prefs, i) = appendLog[i + 1]
    /\ k >= MAX_NOTES => readNote(prefs, MAX_NOTES - 1) = appendLog[k]

\* an append to a full store
AppendAtFull(s) ==
  /\ loadNotesCount(prefs) = MAX_NOTES
  /\ command(cstr(s)) \in {"NOTE", "IMPLICIT"}
  /\ OnWrite(s)

\* C2: overwrite law. After k appends from the empty store the count is
\* min(k, MAX_NOTES), the slots 0..MAX_NOTES-2 hold the first appends in
\* order and, from MAX_NOTES appends on, slot MAX_NOTES-1 holds the last
\* one; an append to a full store, in any state, changes slot MAX_NOTES-1
\* alone and leaves the count at MAX_NOTES.
C2_OverwriteLaw ==
  /\ []LogLaw
  /\ [][\A s \in StoreInputs : AppendAtFull(s) =>
          /\ loadNotesCount(prefs') = MAX_NOTES
          /\ readNote(prefs', MAX_NOTES - 1) = noteText(cstr(s))
          /\ \A i \in 0 .. (MAX_NOTES - 2) : readNote(prefs', i) = readNote(prefs, i)]_vars

\* MAX_NOTES + 1 appends from the empty store, the last one of another text
\* than the one it overwrites
C2_Witness ==
  /\ logOk
  /\ Len(appendLog) = MAX_NOTES + 1
  /\ appendLog[MAX_NOTES] # appendLog[MAX_NOTES + 1]
  /\ appendLog[1] = MarkedText

\* C3: shift law. removeNote(i) with 0 <= i < count lowers the count by
\* one, leaves the slots below i as they were and moves every slot above i
\* down by one: reading i afterwards gives what i+1 held (for i < count-1).
C3_ShiftLaw ==
  [][(lastOp' = "remove" /\ RemoveNoteCall(lastArg')) =>
       LET idx == lastArg' IN
       /\ idx \in Slots(prefs)
       /\ loadNotesCount(prefs') = loadNotesCount(prefs) - 1
       /\ \A j \in Slots(prefs) :
            /\ j < idx => readNote(prefs', j) = readNote(prefs, j)
            /\ j > idx => readNote(prefs', j - 1) = readNote(prefs, j)
       /\ idx < loadNotesCount(prefs) - 1 =>
            readNote(prefs', idx) = readNote(prefs, idx + 1)]_vars

\* a removal below the last slot that pulled the second text down to the
\* removed index, over a slot that still holds the first text
C3_Witness ==
  /\ lastOp = "remove"
  /\ lastArg >= 1
  /\ lastArg < loadNotesCount(prefs)
  /\ readNote(prefs, lastArg) = MarkedText
  /\ readNote(prefs, lastArg - 1) # MarkedText

\* C4: removeNote with an index outside [0, count) changes neither the
\* count nor any slot.
C4_RemoveOutOfRange ==
  [][(lastOp' = "removeNoop" /\ RemoveNoteCall(lastArg')) =>
       (lastArg' \notin Slots(prefs) /\ prefs' = prefs)]_vars

\* removeNote(count) was called on a store that holds notes
C4_Witness ==
  /\ lastOp = "removeNoop"
  /\ lastArg = loadNotesCount(prefs)
  /\ loadNotesCount(prefs) >= 2

ReadIdx == (0 - MaxOOB) .. (MAX_NOTES - 1 + MaxOOB)

\* C5: readNote gives the empty text for every index outside [0, count),
\* and right after CLEAR_NOTES the count is 0 and readNote(0) is empty.
C5_ReadDegrades ==
  /\ \A idx \in ReadIdx : idx \notin Slots(prefs) => readNote(prefs, idx) = EmptyText
  /\ lastOp = "CLEAR_NOTES" =>
        loadNotesCount(prefs) = 0 /\ readNote(prefs, 0) = EmptyText

\* CLEAR_NOTES arrived at a store of three notes
C5_Witness ==
  /\ lastOp = "CLEAR_NOTES"
  /\ lastArg = 3
  /\ loadNotesCount(prefs) = 0

\* ------------------------------------------------------------ command claims
\* one note with the text t was appended
Appended(t) ==
  LET n == loadNotesCount(prefs) IN
  /\ loadNotesCount(prefs') = Min(n + 1, MAX_NOTES)
  /\ readNote(prefs', Min(n, MAX_NOTES - 1)) = t
  /\ \A i \in 0 .. (Min(n, MAX_NOTES - 1) - 1) : readNote(prefs', i) = readNote(prefs, i)

\* no note was appended
NothingAppended ==
  /\ loadNotesCount(prefs') <= loadNotesCount(prefs)
  /\ \A i \in Slots(prefs') : readNote(prefs', i) = readNote(prefs, i)

\* the grammar of the command channel, read on the value as it was written
Grammar(s) ==
  IF Len(s) = 0 THEN UNCHANGED vars
  ELSE IF startsWith(s, sNOTE) THEN Appended(substring(s, 5))
  ELSE IF startsWith(s, sTIME) \/ s = sCLEAR_NOTES \/ s = sBLE_OFF THEN NothingAppended
  ELSE Appended(s)

\* C6: every written value is interpreted by the grammar, first match
\* wins: the empty value changes nothing, NOTE:<rest> appends <rest>,
\* TIME:..., CLEAR_NOTES and BLE:OFF append nothing, and every other
\* non-empty value is appended whole.
C6_Grammar == [][\A s \in CmdInputs : OnWrite(s) => Grammar(s)]_vars

HasNul(s) == \E i \in 1..Len(s) : s[i] = NUL

\* the grammar holds of every written value that has no zero byte
C6_GrammarOfText ==
  [][\A s \in CmdInputs : (OnWrite(s) /\ ~HasNul(s)) => Grammar(s)]_vars

\* a written value with a zero byte is interpreted as its bytes before it
C6_GrammarOfCStr ==
  [][\A s \in CmdInputs : (OnWrite(s) /\ Len(s) > 0 /\ HasNul(s)) =>
        IF Len(cstr(s)) = 0 THEN Appended(EmptyText) ELSE Grammar(cstr(s))]_vars

\* ------------------------------------------------------------ decoder claims
FwdSeq == << << 0, 0 >>, << 1, 0 >>, << 1, 1 >>, << 0, 1 >>, << 0, 0 >> >>
RevSeq == << << 0, 0 >>, << 0, 1 >>, << 1, 1 >>, << 1, 0 >>, << 0, 0 >> >>

\* the net position change over the four transitions of a sampled
\* five-pair sequence, and over its five decode steps (the first one
\* decoded against the pair remembered since boot, encoderPos being 0 then)
DeltaOfTransitions == posLog[5] - posLog[1]
DeltaOfSteps == posLog[5]

\* C7: the decoder, fed the pairs (0,0) (1,0) (1,1) (0,1) (0,0) or the
\* reverse sequence, one decode step per pair, moves the position by
\* exactly +4 or -4.
C7_QuadratureDelta ==
  samples \in {FwdSeq, RevSeq} =>
    (DeltaOfTransitions \in {4, 0 - 4} \/ DeltaOfSteps \in {4, 0 - 4})

\* what lines 529-531 give for the two sequences: the four transitions
\* cancel, and the first decode step leaves +1
C7_CodeDelta ==
  samples \in {FwdSeq, RevSeq} => (DeltaOfTransitions = 0 /\ DeltaOfSteps = 1)

C7_CodeDeltaReached == samples # FwdSeq

\* ------------------------------------------------------------ button claims
ButtonStep == pc = "button" /\ pc' = "bleTimeout"
PressEdge == ~btnDown /\ btnDown'
ReleaseEdge == btnDown /\ ~btnDown'
\* what a short press does: the page moves between list and note, or the manual light toggles
ShortEffect == currentPage' # currentPage \/ manualLightOn' # manualLightOn
\* what a long press does: BLE is switched
LongEffect == bleEnabled' # bleEnabled

\* C8: every release edge, and no other step, emits one classified
\* event: short (and the short-press effect alone) when the time between
\* the press edge and the release edge is below 800 ms, long (and the
\* long-press effect alone) from 800 ms on. The release edge is taken with
\* the button up, the press edge with the button down, and the down state
\* changes in the button step only.
C8_ButtonEvents ==
  [][/\ ButtonStep =>
          /\ PressEdge => (pinBtn = LOW /\ btnDownTs' = now)
          /\ ReleaseEdge =>
               /\ pinBtn = HIGH
               /\ IF now - btnDownTs < LONG_PRESS_MS
                    THEN btnEvent' = "short" /\ ShortEffect /\ ~LongEffect
                    ELSE btnEvent' = "long" /\ LongEffect /\ ~ShortEffect
          /\ ~ReleaseEdge => (btnEvent' = "none" /\ ~ShortEffect /\ ~LongEffect)
     /\ (btnDown' # btnDown \/ (btnEvent' \in {"short", "long"} /\ btnEvent' # btnEvent)) =>
          (ButtonStep \/ pc = "asleep")]_vars

\* a press released after exactly 800 ms was classified long
C8_Witness ==
  /\ pc = "bleTimeout"
  /\ btnEvent = "long"
  /\ heldMs = LONG_PRESS_MS
  /\ bleEnabled

\* ------------------------------------------------------------ sleep claims
SleepStep == pc = "sleep" /\ pc' # pc
IdleMs == now - lastActivityMs

\* C9 as stated: with BLE disabled the sleep decision does not enter sleep
\* at an idle time of the threshold minus 1 ms and enters it at the
\* threshold.
C9_SleepAtThreshold ==
  [][(SleepStep /\ ~bleEnabled) =>
       /\ IdleMs = INACTIVITY_MS - 1 => pc' # "gosleep"
       /\ IdleMs = INACTIVITY_MS => pc' = "gosleep"]_vars

\* C9 as amended: with BLE disabled the sleep decision does not enter
\* sleep at an idle time of the threshold minus 1 ms nor at the threshold,
\* and enters it at the threshold plus 1 ms: it enters sleep exactly when
\* the idle time is greater than the threshold.
C9_SleepPastThreshold ==
  [][(SleepStep /\ ~bleEnabled) =>
       /\ IdleMs = INACTIVITY_MS - 1 => pc' # "gosleep"
       /\ IdleMs = INACTIVITY_MS => pc' # "gosleep"
       /\ IdleMs = INACTIVITY_MS + 1 => pc' = "gosleep"
       /\ pc' = "gosleep" <=> IdleMs > INACTIVITY_MS]_vars

\* asleep after an idle time of the threshold plus 1 ms
C9_Witness ==
  /\ pc = "asleep"
  /\ ~bleEnabled
  /\ IdleMs = INACTIVITY_MS + 1

\* C10: sleep is entered with BLE disabled only: from the sleep decision
\* to the deep sleep itself bleEnabled is false, whatever the command
\* channel does meanwhile.
C10_NoSleepWhileBle == pc \in {"gosleep", "asleep"} => ~bleEnabled

\* asleep while the callback of a BLE:OFF command had not yet returned
C10_Witness ==
  /\ pc = "asleep"
  /\ cbPc = "stamp"
  /\ lastOp = "BLE_OFF"

\* ------------------------------------------------------------ BLE claims
TimeoutStep == pc = "bleTimeout" /\ pc' = "light"
BleAge == now - bleEnableTs

EncoderStep == pc = "encoder" /\ pc' = "nav"
NavStep == pc = "nav" /\ pc' = "button"
Pages == 0 .. (NUM_PAGES - 1)

\* C12: page navigation is cyclic and closed: the page is Dashboard (0)
\* at the start and one of 0..3 always; the position the navigation step
\* compares differs from the remembered one by one increment or decrement
\* at most, and only there; an increment moves the page to (page + 1) mod 4,
\* a decrement to (page - 1) mod 4, and the destination page is drawn; a
\* navigation step without either leaves the page and the display alone.
C12_CyclicNavigation ==
  /\ currentPage = 0
  /\ [](currentPage \in Pages)
  /\ [](IF pc = "nav" THEN encoderPos - lastEncoderPos \in {0 - 1, 0, 1}
                      ELSE encoderPos = lastEncoderPos)
  /\ [][/\ NavStep =>
             /\ encoderPos = lastEncoderPos + 1 =>
                  (currentPage' = (currentPage + 1) % NUM_PAGES /\ lastDraw' = pageDraw(currentPage'))
             /\ encoderPos = lastEncoderPos - 1 =>
                  (currentPage' = (currentPage + NUM_PAGES - 1) % NUM_PAGES /\ lastDraw' = pageDraw(currentPage'))
             /\ encoderPos = lastEncoderPos => UNCHANGED << currentPage, lastDraw >>
             /\ lastEncoderPos' = encoderPos
        /\ encoderPos' # encoderPos => EncoderStep]_vars

\* a decrement on Dashboard led to System, which is drawn
C12_Witness ==
  /\ pc = "button"
  /\ samples = << << LOW, HIGH >> >>
  /\ encoderPos = 0 - 1
  /\ lastEncoderPos = encoderPos
  /\ currentPage = NUM_PAGES - 1
  /\ lastDraw = "System"

\* ------------------------------------------------------------ press claims
ShortPress == ButtonStep /\ ReleaseEdge /\ now - btnDownTs < LONG_PRESS_MS
LongPress == ButtonStep /\ ReleaseEdge /\ now - btnDownTs >= LONG_PRESS_MS

\* C13: a short press on NotesList (1) moves to NoteView (2) and draws
\* the note selectedNoteIndex; on NoteView it moves back to NotesList and
\* draws the list; on Dashboard (0) or System (3) it changes neither the
\* page nor the display and flips the manual light, the LEDC duty going to
\* LIGHT_PWM_ON or to 0; the first two leave the manual light alone.
C13_ShortPress ==
  [][ShortPress =>
       /\ currentPage = 1 =>
            /\ currentPage' = 2 /\ lastDraw' = "Note" /\ drawnNote' = selectedNoteIndex
            /\ UNCHANGED << manualLightOn, ledc >>
       /\ currentPage = 2 =>
            /\ currentPage' = 1 /\ lastDraw' = "NotesList"
            /\ UNCHANGED << manualLightOn, ledc >>
       /\ currentPage \in {0, 3} =>
            /\ UNCHANGED << currentPage, lastDraw >>
            /\ manualLightOn' = ~manualLightOn
            /\ ledc' = IF manualLightOn THEN 0 ELSE LIGHT_PWM_ON]_vars

\* a short press on NoteView led back to NotesList after a note had been
\* drawn, and a short press on Dashboard or System had lit the manual light
C13_Witness ==
  /\ pc = "bleTimeout"
  /\ btnEvent = "short"
  /\ currentPage = 1
  /\ lastDraw = "NotesList"
  /\ drawnNote = selectedNoteIndex
  /\ manualLightOn

\* C14: a long press on any page toggles BLE and leaves the page alone:
\* from disabled, BLE is enabled, bleEnableTs and lastActivityMs are set
\* to the current time and the dashboard is drawn; from enabled, BLE is
\* disabled, bleEnableTs stays and the dashboard is drawn. A call of
\* bleStart with BLE enabled and a call of bleStop with BLE disabled
\* change nothing and draw nothing.
C14_LongPress ==
  [][/\ LongPress =>
          /\ bleEnabled' = ~bleEnabled
          /\ lastDraw' = "Dashboard"
          /\ lastActivityMs' = now
          /\ bleEnableTs' = IF bleEnabled THEN bleEnableTs ELSE now
          /\ UNCHANGED << currentPage, manualLightOn, prefs >>
     /\ (BleStartAgain \/ BleStopAgain) => UNCHANGED vars]_vars

\* a long press on a page other than the dashboard disabled BLE, which a
\* long press had enabled
C14_Witness ==
  /\ pc = "bleTimeout"
  /\ btnEvent = "long"
  /\ ~bleEnabled
  /\ bleEnableTs = LONG_PRESS_MS
  /\ lastActivityMs = now
  /\ now = LONG_PRESS_MS + BLE_ENABLE_TIMEOUT_MS + 1
  /\ currentPage # 0
  /\ lastDraw = "Dashboard"

\* ------------------------------------------------------------ activity clock claims
CommandStep == \E s \in BleInputs : Len(s) > 0 /\ OnWrite(s)

\* C15: lastActivityMs is set to the current time by every navigation
\* step, by every button transition, the press edge and the release edge
\* alike, and by every processed non-empty command, and it never moves
\* backwards.
C15_ActivityClock ==
  [][/\ (NavStep /\ encoderPos # lastEncoderPos) => lastActivityMs' = now
     /\ (ButtonStep /\ (PressEdge \/ ReleaseEdge)) => lastActivityMs' = now
     /\ CommandStep => lastActivityMs' = now
     /\ lastActivityMs' >= lastActivityMs]_vars

\* what the code keeps of it: the same without the press edge, which
\* leaves lastActivityMs as it was
C15_ActivityButPress ==
  [][/\ (NavStep /\ encoderPos # lastEncoderPos) => lastActivityMs' = now
     /\ (ButtonStep /\ ReleaseEdge) => lastActivityMs' = now
     /\ (ButtonStep /\ PressEdge) => lastActivityMs' = lastActivityMs
     /\ CommandStep => lastActivityMs' = now
     /\ lastActivityMs' >= lastActivityMs]_vars

\* the button went down later than the last activity
C15_PressUnstamped ==
  /\ pc = "bleTimeout"
  /\ btnDown
  /\ btnDownTs = now
  /\ lastActivityMs < now

\* ------------------------------------------------------------ wake-up claims
\* C16: entering sleep is terminal. The chip falls asleep from the sleep
\* branch only, with BLE disabled, after the final draw of the dashboard
\* and with the light off. While it sleeps nothing but the input pins
\* changes, whatever the encoder does. It leaves sleep only with the
\* button down, and then every variable is as initialised: the page is
\* Dashboard, which is drawn, BLE is disabled, millis() starts again,
\* while the note count and every slot of the store are as before sleep.
C16_SleepTerminal ==
  [][/\ (pc # "asleep" /\ pc' = "asleep") =>
          /\ pc = "gosleep" /\ ~bleEnabled
          /\ lastDraw' = "Dashboard" /\ ledc' = 0
          /\ UNCHANGED << prefs, bleEnabled, currentPage >>
     /\ (pc = "asleep" /\ pc' = "asleep") =>
          UNCHANGED << storeVars, sysEpoch, bleEnabled, bleEnableTs, navVars, encoderPos,
                       encoderMoved, lastA, lastB, lastActivityMs, btnDown, btnDownTs,
                       lightVars, lastBatMs, lastDraw, timeVars, cbPc, cbI >>
     /\ (pc = "asleep" /\ pc' # "asleep") =>
          /\ pinBtn = LOW
          /\ pc' = "encoder" /\ cbPc' = "idle"
          /\ currentPage' = 0 /\ lastDraw' = "Dashboard" /\ selectedNoteIndex' = 0
          /\ ~bleEnabled' /\ bleEnableTs' = 0
          /\ encoderPos' = 0 /\ lastEncoderPos' = 0 /\ ~encoderMoved'
          /\ lastA' = HIGH /\ lastB' = HIGH
          /\ ~btnDown' /\ ~manualLightOn' /\ ledc' = 0
          /\ now' = 0 /\ lastActivityMs' = 0
          /\ prefs' = prefs /\ UNCHANGED << pinA, pinB, pinBtn >>]_vars

\* woken by the button with the note of before in the store; the page had
\* been System, and the encoder had moved during sleep without waking
C16_Witness ==
  /\ pc = "encoder"
  /\ now = 0
  /\ pinBtn = LOW
  /\ lastOp = "NOTE"
  /\ loadNotesCount(prefs) = 1
  /\ readNote(prefs, 0) = <<"a">>
  /\ samples = << << LOW, HIGH >> >>
  /\ pinA = HIGH
  /\ ~encoderMoved
  /\ currentPage = 0
  /\ lastDraw = "Dashboard"
  /\ ~bleEnabled

\* ------------------------------------------------------------ ordering claims
\* the stage of loop() that follows each stage
NextStage ==
  [encoder |-> {"nav"}, nav |-> {"button"}, button |-> {"bleTimeout"},
   bleTimeout |-> {"light"}, light |-> {"periodic"}, periodic |-> {"sleep"},
   sleep |-> {"encoder", "gosleep"}, gosleep |-> {"asleep"}, asleep |-> {"encoder"}]

\* a command is processed: the body of TextCallback::onWrite runs
CommandProcessed == cbPc = "idle" /\ cbPc' = "stamp"

\* C17: the stages of an iteration run in the fixed order encoder decode,
\* page change, button, BLE timeout, light, periodic redraw, sleep
\* decision; no iteration registers a long press and enters sleep; and no
\* command is processed between the periodic redraw and the sleep decision
\* of an iteration.
C17_LoopOrder ==
  [][/\ pc' # pc => pc' \in NextStage[pc]
     /\ (SleepStep /\ btnEvent = "long") => pc' # "gosleep"
     /\ CommandProcessed => pc # "sleep"]_vars

\* what the code keeps of it: the order of the stages of loop() and no
\* sleep in the iteration of a long press; commands are processed at any
\* stage
C17_StageOrder ==
  [][/\ pc' # pc => pc' \in NextStage[pc]
     /\ (SleepStep /\ btnEvent = "long") => pc' # "gosleep"]_vars

\* a command was processed between the periodic redraw and the sleep decision
C17_CommandBeforeSleepDecision ==
  /\ pc = "sleep"
  /\ cbPc = "stamp"
  /\ lastActivityMs < now
  /\ lastOp = "NOTE"

\* ------------------------------------------------------------ encoder flag claims
LinesMove == << pinA', pinB' >> # << pinA, pinB >>
DecodeStep == pc = "encReadB" /\ pc' = "nav"
\* the remembered pair is the pair on the lines and no interrupt is pending
Synced == lastA = pinA /\ lastB = pinB /\ ~encoderMoved

\* C18: encoderMoved is set by the interrupt only, on every movement of
\* the lines, and cleared only by loop(), before it reads the lines; a flag
\* found set makes the iteration sample, so that a movement between the
\* clearing and the reads is sampled again by the next iteration. A decode
\* step changes encoderPos by 1 at most, and not at all when the sampled
\* pair is the remembered one, and encoderPos changes in no other step.
\* Once the lines rest, the remembered pair comes to be the pair on the
\* lines with the flag clear, and stays so.
C18_FlagAndResample ==
  /\ [][/\ LinesMove => encoderMoved'
        /\ (~encoderMoved /\ encoderMoved') => LinesMove
        /\ (encoderMoved /\ ~encoderMoved') => (pc = "encoder" /\ pc' = "encReadA")
        /\ (pc = "encoder" /\ pc' # pc) => pc' = (IF encoderMoved THEN "encReadA" ELSE "nav")
        /\ DecodeStep =>
             /\ encoderPos' - encoderPos \in {0 - 1, 0, 1}
             /\ << smpA, pinB >> = << lastA, lastB >> => encoderPos' = encoderPos
             /\ lastA' = smpA /\ lastB' = pinB
        /\ encoderPos' # encoderPos => DecodeStep]_vars
  /\ (encoderMoved ~> Synced)
  /\ <>[]Synced

\* the lines moved between the clearing of the flag and the reads: the
\* first sample had the new pair already, the next iteration sampled the
\* same pair again and left the position alone
C18_Witness ==
  /\ pc = "nav"
  /\ Len(samples) = 2
  /\ samples[2] = samples[1]
  /\ posLog[2] = posLog[1]
  /\ Synced

\* ------------------------------------------------------------ store access claims
\* every slot below the count is present
Consistent(p) == \A i \in 0 .. (loadNotesCount(p) - 1) : i \in DOMAIN p.note
\* a step of TextCallback::onWrite
CallbackStep == cbPc' # cbPc \/ cbI' # cbI
\* loop() draws the list: it reads the count, then the slots below it
ListRead == (NavStep \/ ButtonStep) /\ lastDraw' = "NotesList" /\ currentPage' = 1

\* C19: the store is written in one execution context, the count is the
\* last write of every mutation that writes several fields, and no reader
\* that reads the count and then the slots finds a slot below the count
\* absent or not yet written.
C19_NoPartialUpdate ==
  [][/\ prefs' # prefs => CallbackStep
     /\ loadNotesCount(prefs') # loadNotesCount(prefs) => cbPc' = "stamp"
     /\ ListRead => Consistent(prefs)]_vars

\* what the code keeps of it: one writer, and the count written last
C19_CountLast ==
  [][/\ prefs' # prefs => CallbackStep
     /\ loadNotesCount(prefs') # loadNotesCount(prefs) => cbPc' = "stamp"]_vars

\* loop() has drawn the list of a store whose count is 1 and whose slot 0
\* CLEAR_NOTES had removed already
C19_TornListDrawn ==
  /\ pc = "button"
  /\ currentPage = 1
  /\ lastDraw = "NotesList"
  /\ cbPc = "clear"
  /\ loadNotesCount(prefs) = 1
  /\ 0 \notin DOMAIN prefs.note

\* ------------------------------------------------------------ selection claims
\* a call of drawNote: NoteView is rendered
NoteDrawn == (NavStep \/ ButtonStep) /\ lastDraw' = "Note" /\ currentPage' = 2

PeriodicStep == pc = "periodic" /\ pc' = "sleep"
FinalRender == pc = "gosleep" /\ pc' = "asleep"
\* a step of the callback, not of loop(), that processes a command
PageCommand == pc' = pc /\ cbPc = "idle" /\ \E s \in PageInputs : Len(s) > 0 /\ OnWrite(s)
\* the display shows the page currentPage names
Shown == lastDraw = pageDraw(currentPage)

\* C21: currentPage changes only in a navigation step that finds the
\* encoder position changed and in a short press made in NotesList (1) or
\* NoteView (2); a processed command, a long press, the BLE timeout, the
\* periodic refresh and the render before deep sleep leave it unchanged,
\* whatever they draw.
C21_PageFrame ==
  [][/\ currentPage' # currentPage =>
          \/ NavStep /\ encoderPos # lastEncoderPos
          \/ ShortPress /\ currentPage \in { 1, 2 }
     /\ (LongPress \/ TimeoutStep \/ PeriodicStep \/ FinalRender \/ PageCommand) =>
          currentPage' = currentPage]_vars

\* the device asleep on NoteView with the dashboard on the display: BLE
\* was enabled by a long press, a NOTE command drew the list, a short
\* press opened the note, the timeout and the final render drew the
\* dashboard, and the page is still 2
C21_Witness ==
  /\ pc = "asleep"
  /\ currentPage = 2
  /\ lastDraw = "Dashboard"
  /\ ~Shown
  /\ lastOp = "NOTE"
  /\ readNote(prefs, 0) = <<"a">>
  /\ ~bleEnabled
  /\ bleEnableTs > 0
  /\ lastBatMs > 0

====
